---- MODULE Spec2Model ----
(***************************************************************************)
(* State-machine model of SemanticGuardContract                            *)
(* (src/contracts/semantic_guard_complete.rs), specification Spec, and of  *)
(* the key/value variant NearGravitySemanticGuard                          *)
(* (src/contracts/lib_backup.rs), specification SpecBackup.                *)
(*                                                                         *)
(* Strings are TLA+ strings, Vec<T> is a sequence, Option<T> is a sequence *)
(* of length 0 (None) or 1 (Some), f64 values are carried as their decimal *)
(* literals because the contract never computes with them.                 *)
(*                                                                         *)
(* A change method runs as one function-call receipt: its storage writes   *)
(* are staged (tx_analyses, tx_metadata) and become the contract's state   *)
(* (analyses, contract_metadata) when the method returns; a receipt that   *)
(* the runtime aborts drops the staged writes.  Nothing else runs while a  *)
(* receipt executes.                                                       *)
(***************************************************************************)
EXTENDS Integers, Sequences, FiniteSets, TLC

\* Bounds of the model.
MaxSubmissions == 2   \* cap on total_analyses
MaxBlocks == 1        \* cap on block_index
MaxLimit == 2         \* largest limit passed to get_recent_analyses

\* The values the environment and the callers choose from.
Accounts == {"alice.near"}
Queries == {"", "1"}
TimeSteps == {10}
Prefixes == {"a", "a_b"}
Identifiers == {"c", "b_c"}
AnalysisData == {"{}", "{\"x\":1}"}

OutlierSeverity == {"Low", "Medium", "High", "Critical"}

VARIABLES
    analyses,           \* UnorderedMap<String, SemanticGuardRecord>: entries in enumeration order
    contract_metadata,  \* ContractMetadata
    block_timestamp,    \* env::block_timestamp()
    block_index,        \* env::block_index()
    pc,                 \* position of the executing change method: "idle", "inserted", "incremented"
    tx_analyses,        \* the executing method's view of self.analyses
    tx_metadata,        \* the executing method's view of self.contract_metadata
    tx_call,            \* the executing method: op, arg, ret, env
    last,               \* the last call that returned: op, arg, ret, env
    completed,          \* history: number of submission calls that returned
    collided            \* history: number of those whose identifier was already stored

vars == <<analyses, contract_metadata, block_timestamp, block_index, pc,
          tx_analyses, tx_metadata, tx_call, last, completed, collided>>

-----------------------------------------------------------------------------
\* Data constructors for the inputs.

SearchResult(id) ==
    [id |-> id, title |-> "Test Result", snippet |-> "Test snippet",
     url |-> "https://test.com", rank |-> 1, source_type |-> "scientific",
     semantic_hash |-> "hash123", trustworthiness_score |-> "0.9"]

SemanticOutlier(result_id, severity) ==
    [result_id |-> result_id, reason |-> "distance", severity |-> severity,
     max_distance |-> "0.9", source_type |-> "news",
     verification_status |-> "Pending", outlier_distances |-> <<>>]

SemanticAnalysisResult(outliers) ==
    [center_of_gravity |-> "A", outliers |-> outliers, distance_matrix |-> <<>>,
     embeddings |-> <<>>, threshold_used |-> "0.75", processing_time_ms |-> 100,
     consensus_score |-> "0.95"]

AnalysisMetadata(node, reached) ==
    [model_version |-> "1.0", algorithm_version |-> "1.0", processing_node |-> node,
     verification_count |-> 0, dispute_count |-> 0, consensus_reached |-> reached]

\* The (results, semantic_analysis, metadata) triples a caller submits.
Payloads ==
    { [results |-> <<>>,
       semantic_analysis |-> SemanticAnalysisResult(<<>>),
       metadata |-> AnalysisMetadata("node1", FALSE)],
      [results |-> <<SearchResult("A")>>,
       semantic_analysis |-> SemanticAnalysisResult(<<SemanticOutlier("A", "Low")>>),
       metadata |-> AnalysisMetadata("node2", TRUE)],
      [results |-> <<SearchResult("A"), SearchResult("B")>>,
       semantic_analysis |-> SemanticAnalysisResult(
           <<SemanticOutlier("A", "Low"), SemanticOutlier("B", "High")>>),
       metadata |-> AnalysisMetadata("node1", TRUE)] }

NoEnv == [predecessor |-> "", block_timestamp |-> 0, block_index |-> 0]

-----------------------------------------------------------------------------
\* UnorderedMap<String, SemanticGuardRecord>: a vector of keys and a vector
\* of values, kept here as one sequence of [key, value] entries; values()
\* enumerates it front to back.

KeyIndex(map, key) ==
    IF \E i \in 1..Len(map) : map[i].key = key
    THEN CHOOSE i \in 1..Len(map) : map[i].key = key
    ELSE 0

ContainsKey(map, key) == KeyIndex(map, key) # 0

\* A new key written over the last slot instead of pushed.
Insert_OverLast(map, key, value) ==
    IF ContainsKey(map, key)
    THEN [map EXCEPT ![KeyIndex(map, key)] = [key |-> key, value |-> value]]
    ELSE IF Len(map) = 0 THEN <<[key |-> key, value |-> value]>>
    ELSE [map EXCEPT ![Len(map)] = [key |-> key, value |-> value]]

\* Faulty inserts, used to show that the properties below depend on Insert.
\* or_insert: an existing entry is kept.
Insert_KeepExisting(map, key, value) ==
    IF ContainsKey(map, key) THEN map
    ELSE Append(map, [key |-> key, value |-> value])

\* No lookup of the key: every insert appends.
Insert_AlwaysAppend(map, key, value) ==
    Append(map, [key |-> key, value |-> value])

\* A present key is removed instead of overwritten.
Insert_RemoveExisting(map, key, value) ==
    IF ContainsKey(map, key)
    THEN SelectSeq(map, LAMBDA e : e.key # key)
    ELSE Append(map, [key |-> key, value |-> value])

\* The value is written to every slot of the values vector.
Insert_Clobber(map, key, value) ==
    LET written == [i \in 1..Len(map) |-> [key |-> map[i].key, value |-> value]]
    IN  IF ContainsKey(map, key) THEN written
        ELSE Append(written, [key |-> key, value |-> value])

\* UnorderedMap::insert: replace the value in place when the key is present,
\* append a new entry otherwise.
Insert(map, key, value) ==
    IF ContainsKey(map, key)
    THEN [map EXCEPT ![KeyIndex(map, key)] = [key |-> key, value |-> value]]
    ELSE Append(map, [key |-> key, value |-> value])

\* UnorderedMap::get
Get(map, key) ==
    IF ContainsKey(map, key) THEN <<map[KeyIndex(map, key)].value>> ELSE <<>>

\* UnorderedMap::values
Values(map) == [i \in 1..Len(map) |-> map[i].value]

Keys(map) == {map[i].key : i \in 1..Len(map)}

-----------------------------------------------------------------------------
\* generate_analysis_id: bs58(sha256(format!("{}{}{}", query, timestamp, caller))).
\* The formatting is computed; the digest and its encoding are an injective
\* function of the formatted input whose value is never a demo storage key
\* (the base-58 alphabet has no '_').
\* The caller left out of the digest input.
HashInput_NoCaller(query, timestamp, predecessor) ==
    query \o ToString(timestamp)

HashInput(query, timestamp, predecessor) ==
    query \o ToString(timestamp) \o predecessor

Sha256Bs58(hash_input) == "bs58(sha256(" \o hash_input \o "))"

\* A per-call nonce taken from the counter.
generate_analysis_id_Nonce(query, timestamp, predecessor) ==
    Sha256Bs58(HashInput(query, timestamp, predecessor)
               \o ToString(contract_metadata.total_analyses))

generate_analysis_id(query, timestamp, predecessor) ==
    Sha256Bs58(HashInput(query, timestamp, predecessor))

\* format!("{}_{}_demo", prefix, identifier)
DemoStorageKey(prefix, identifier) == prefix \o "_" \o identifier \o "_demo"

-----------------------------------------------------------------------------
Init ==
    /\ analyses = <<>>
    /\ contract_metadata = [version |-> "1.0.0", total_analyses |-> 0,
                            total_staked |-> 0, consensus_threshold |-> "0.75"]
    /\ block_timestamp = 0
    /\ block_index = 0
    /\ pc = "idle"
    /\ tx_analyses = <<>>
    /\ tx_metadata = [version |-> "1.0.0", total_analyses |-> 0,
                      total_staked |-> 0, consensus_threshold |-> "0.75"]
    /\ tx_call = [op |-> "none", arg |-> <<>>, ret |-> <<>>, env |-> NoEnv]
    /\ last = [op |-> "new", arg |-> <<>>, ret |-> <<>>, env |-> NoEnv]
    /\ completed = 0
    /\ collided = 0

\* The chain produces the next block.
NewBlock ==
    /\ pc = "idle"
    /\ block_index < MaxBlocks
    /\ block_index' = block_index + 1
    /\ \E d \in TimeSteps : block_timestamp' = block_timestamp + d
    /\ UNCHANGED <<analyses, contract_metadata, pc, tx_analyses, tx_metadata,
                   tx_call, last, completed, collided>>

-----------------------------------------------------------------------------
\* The pure parts of the handlers.

\* Equality of severities in place of the lattice.
SeverityMatches_Exact(severity, severity_threshold) ==
    severity = severity_threshold

\* The High arm without its Medium and Low alternatives.
SeverityMatches_HighOnly(severity, severity_threshold) ==
    \/ severity = "Critical"
    \/ severity = "High" /\ severity_threshold = "High"
    \/ severity = "Medium" /\ severity_threshold \in {"Medium", "Low"}
    \/ severity = "Low" /\ severity_threshold = "Low"

\* matches!((&outlier.severity, &severity_threshold), ...) in get_high_risk_analyses
SeverityMatches(severity, severity_threshold) ==
    \/ severity = "Critical"
    \/ severity = "High" /\ severity_threshold \in {"High", "Medium", "Low"}
    \/ severity = "Medium" /\ severity_threshold \in {"Medium", "Low"}
    \/ severity = "Low" /\ severity_threshold = "Low"

\* outliers.iter().any(...)
AnyOutlierMatches(record, severity_threshold) ==
    \E i \in 1..Len(record.semantic_analysis.outliers) :
        SeverityMatches(record.semantic_analysis.outliers[i].severity, severity_threshold)

\* The matches collected back to front.
HighRiskAnalyses_Reversed(map, severity_threshold) ==
    LET found == SelectSeq(Values(map),
                           LAMBDA record : AnyOutlierMatches(record, severity_threshold))
    IN  [i \in 1..Len(found) |-> found[Len(found) + 1 - i]]

\* self.analyses.values().filter(...).collect()
HighRiskAnalyses(map, severity_threshold) ==
    SelectSeq(Values(map), LAMBDA record : AnyOutlierMatches(record, severity_threshold))

\* Iterator::rev
Rev(s) == [i \in 1..Len(s) |-> s[Len(s) + 1 - i]]

\* Iterator::take
Take(s, n) == IF n >= Len(s) THEN s ELSE SubSeq(s, 1, n)

\* take before rev: the first `limit` records, reversed.
RecentAnalyses_TakeThenRev(map, limit) == Rev(Take(Values(map), limit))

\* self.analyses.values().collect::<Vec<_>>().into_iter().rev().take(limit).collect()
RecentAnalyses(map, limit) == Take(Rev(Values(map)), limit)

\* The increment applied to the wrong field.
IncrementTotal_WrongField(metadata) ==
    [metadata EXCEPT !.total_staked = @ + 1]

\* The increment left out.
IncrementTotal_Skip(metadata) == metadata

\* self.contract_metadata.total_analyses += 1
IncrementTotal(metadata) ==
    [metadata EXCEPT !.total_analyses = @ + 1]

\* The size of the map in place of the counter.
TotalAnalyses_Len(map, metadata) == Len(map)

\* self.contract_metadata.total_analyses
TotalAnalyses(map, metadata) == metadata.total_analyses

\* The record submit_demo_analysis builds.
DemoRecord(storage_key, predecessor, timestamp, height) ==
    [id |-> storage_key,
     query |-> "Demo Query",
     results |-> <<>>,
     semantic_analysis |->
        [center_of_gravity |-> "A", outliers |-> <<>>, distance_matrix |-> <<>>,
         embeddings |-> <<>>, threshold_used |-> "0.75", processing_time_ms |-> 100,
         consensus_score |-> "0.95"],
     submitter |-> predecessor,
     timestamp |-> timestamp,
     block_height |-> height,
     metadata |->
        [model_version |-> "demo", algorithm_version |-> "1.0",
         processing_node |-> "demo_node", verification_count |-> 0,
         dispute_count |-> 0, consensus_reached |-> TRUE]]

NoCall == [op |-> "none", arg |-> <<>>, ret |-> <<>>, env |-> NoEnv]

Env(predecessor) ==
    [predecessor |-> predecessor, block_timestamp |-> block_timestamp,
     block_index |-> block_index]

-----------------------------------------------------------------------------
\* Change methods.  Each runs from its entry to Return unless the runtime
\* aborts the receipt.

\* The backup variant's rejection of empty input carried into the core.
submit_semantic_analysis_Validating(query, results, semantic_analysis, metadata, predecessor) ==
    /\ pc = "idle"
    /\ contract_metadata.total_analyses < MaxSubmissions
    /\ query # ""
    /\ LET analysis_id == generate_analysis_id(query, block_timestamp, predecessor)
           record == [id |-> analysis_id,
                      query |-> query,
                      results |-> results,
                      semantic_analysis |-> semantic_analysis,
                      submitter |-> predecessor,
                      timestamp |-> block_timestamp,
                      block_height |-> block_index,
                      metadata |-> metadata]
       IN  /\ tx_analyses' = Insert(tx_analyses, analysis_id, record)
           /\ tx_call' = [op |-> "submit_semantic_analysis",
                          arg |-> [query |-> query, results |-> results,
                                   semantic_analysis |-> semantic_analysis,
                                   metadata |-> metadata],
                          ret |-> analysis_id,
                          env |-> Env(predecessor)]
    /\ pc' = "inserted"
    /\ UNCHANGED <<analyses, contract_metadata, block_timestamp, block_index,
                   tx_metadata, last, completed, collided>>

\* submit_semantic_analysis up to and including self.analyses.insert
submit_semantic_analysis(query, results, semantic_analysis, metadata, predecessor) ==
    /\ pc = "idle"
    /\ contract_metadata.total_analyses < MaxSubmissions
    /\ LET analysis_id == generate_analysis_id(query, block_timestamp, predecessor)
           record == [id |-> analysis_id,
                      query |-> query,
                      results |-> results,
                      semantic_analysis |-> semantic_analysis,
                      submitter |-> predecessor,
                      timestamp |-> block_timestamp,
                      block_height |-> block_index,
                      metadata |-> metadata]
       IN  /\ tx_analyses' = Insert(tx_analyses, analysis_id, record)
           /\ tx_call' = [op |-> "submit_semantic_analysis",
                          arg |-> [query |-> query, results |-> results,
                                   semantic_analysis |-> semantic_analysis,
                                   metadata |-> metadata],
                          ret |-> analysis_id,
                          env |-> Env(predecessor)]
    /\ pc' = "inserted"
    /\ UNCHANGED <<analyses, contract_metadata, block_timestamp, block_index,
                   tx_metadata, last, completed, collided>>

\* The payload stored as the record's query.
submit_demo_analysis_UsesPayload(prefix, identifier, analysis_data, predecessor) ==
    /\ pc = "idle"
    /\ contract_metadata.total_analyses < MaxSubmissions
    /\ LET storage_key == DemoStorageKey(prefix, identifier)
           demo_record == [DemoRecord(storage_key, predecessor, block_timestamp, block_index)
                              EXCEPT !.query = analysis_data]
       IN  /\ tx_analyses' = Insert(tx_analyses, storage_key, demo_record)
           /\ tx_call' = [op |-> "submit_demo_analysis",
                          arg |-> [prefix |-> prefix, identifier |-> identifier,
                                   analysis_data |-> analysis_data],
                          ret |-> storage_key,
                          env |-> Env(predecessor)]
    /\ pc' = "inserted"
    /\ UNCHANGED <<analyses, contract_metadata, block_timestamp, block_index,
                   tx_metadata, last, completed, collided>>

\* submit_demo_analysis up to and including self.analyses.insert
submit_demo_analysis(prefix, identifier, analysis_data, predecessor) ==
    /\ pc = "idle"
    /\ contract_metadata.total_analyses < MaxSubmissions
    /\ LET storage_key == DemoStorageKey(prefix, identifier)
           demo_record == DemoRecord(storage_key, predecessor, block_timestamp, block_index)
       IN  /\ tx_analyses' = Insert(tx_analyses, storage_key, demo_record)
           /\ tx_call' = [op |-> "submit_demo_analysis",
                          arg |-> [prefix |-> prefix, identifier |-> identifier,
                                   analysis_data |-> analysis_data],
                          ret |-> storage_key,
                          env |-> Env(predecessor)]
    /\ pc' = "inserted"
    /\ UNCHANGED <<analyses, contract_metadata, block_timestamp, block_index,
                   tx_metadata, last, completed, collided>>

\* The receipt ends after the insert and the increment runs in a later one
\* (as with a promise between the two statements): the insert is committed
\* on its own.
increment_total_analyses_NextReceipt ==
    /\ pc = "inserted"
    /\ analyses' = tx_analyses
    /\ tx_metadata' = IncrementTotal(tx_metadata)
    /\ pc' = "incremented"
    /\ UNCHANGED <<contract_metadata, block_timestamp, block_index,
                   tx_analyses, tx_call, last, completed, collided>>

\* self.contract_metadata.total_analyses += 1 in either submission method
increment_total_analyses ==
    /\ pc = "inserted"
    /\ tx_metadata' = IncrementTotal(tx_metadata)
    /\ pc' = "incremented"
    /\ UNCHANGED <<analyses, contract_metadata, block_timestamp, block_index,
                   tx_analyses, tx_call, last, completed, collided>>

\* The submission method logs and returns its identifier; the generated
\* wrapper writes the contract state and the receipt's writes are committed.
Return ==
    /\ pc = "incremented"
    /\ analyses' = tx_analyses
    /\ contract_metadata' = tx_metadata
    /\ last' = tx_call
    /\ completed' = completed + 1
    /\ collided' = collided + (IF ContainsKey(analyses, tx_call.ret) THEN 1 ELSE 0)
    /\ pc' = "idle"
    /\ tx_call' = NoCall
    /\ UNCHANGED <<block_timestamp, block_index, tx_analyses, tx_metadata>>

\* The runtime aborts the executing receipt (for instance out of gas): its
\* staged writes are dropped.
Abort ==
    /\ pc # "idle"
    /\ tx_analyses' = analyses
    /\ tx_metadata' = contract_metadata
    /\ tx_call' = NoCall
    /\ pc' = "idle"
    /\ UNCHANGED <<analyses, contract_metadata, block_timestamp, block_index,
                   last, completed, collided>>

-----------------------------------------------------------------------------
\* View methods (&self).

Answer(op, arg, ret) ==
    /\ pc = "idle"
    /\ last' = [op |-> op, arg |-> arg, ret |-> ret, env |-> NoEnv]
    /\ UNCHANGED <<analyses, contract_metadata, block_timestamp, block_index, pc,
                   tx_analyses, tx_metadata, tx_call, completed, collided>>

get_semantic_analysis(analysis_id) ==
    Answer("get_semantic_analysis", analysis_id, Get(analyses, analysis_id))

get_high_risk_analyses(severity_threshold) ==
    Answer("get_high_risk_analyses", severity_threshold,
           HighRiskAnalyses(analyses, severity_threshold))

\* A &mut self variant that drains what it returns.
get_recent_analyses_Drain(limit) ==
    /\ pc = "idle"
    /\ last' = [op |-> "get_recent_analyses", arg |-> limit,
                ret |-> RecentAnalyses(analyses, limit), env |-> NoEnv]
    /\ analyses' = Take(analyses, Len(analyses) - Len(RecentAnalyses(analyses, limit)))
    /\ tx_analyses' = analyses'
    /\ UNCHANGED <<contract_metadata, block_timestamp, block_index, pc,
                   tx_metadata, tx_call, completed, collided>>

get_recent_analyses(limit) ==
    Answer("get_recent_analyses", limit, RecentAnalyses(analyses, limit))

get_contract_stats ==
    Answer("get_contract_stats", <<>>, contract_metadata)

get_total_analyses ==
    Answer("get_total_analyses", <<>>, TotalAnalyses(analyses, contract_metadata))

\* A probe that reports whether anything is stored.
health_check_NonEmpty ==
    Answer("health_check", <<>>, Len(analyses) > 0)

health_check ==
    Answer("health_check", <<>>, TRUE)

\* The identifiers a caller asks get_semantic_analysis for.
LookupIds == Keys(analyses) \cup {"unknown"}

-----------------------------------------------------------------------------
Next ==
    \/ NewBlock
    \/ \E query \in Queries, p \in Payloads, predecessor \in Accounts :
          submit_semantic_analysis(query, p.results, p.semantic_analysis,
                                   p.metadata, predecessor)
    \/ \E prefix \in Prefixes, identifier \in Identifiers,
          analysis_data \in AnalysisData, predecessor \in Accounts :
          submit_demo_analysis(prefix, identifier, analysis_data, predecessor)
    \/ increment_total_analyses
    \/ Return
    \/ Abort
    \/ \E analysis_id \in LookupIds : get_semantic_analysis(analysis_id)
    \/ \E severity_threshold \in OutlierSeverity :
          get_high_risk_analyses(severity_threshold)
    \/ \E limit \in 0..MaxLimit : get_recent_analyses(limit)
    \/ get_contract_stats
    \/ get_total_analyses
    \/ health_check

Spec == Init /\ [][Next]_vars

-----------------------------------------------------------------------------
\* NearGravitySemanticGuard (src/contracts/lib_backup.rs), the key/value
\* variant, as a specification of its own.  Its fields are held in the
\* variables of the same name and role: `analyses` is its
\* HashMap<String, String> (entries [key, value]; no modelled method reads
\* the iteration order) and `contract_metadata` holds owner and
\* total_analyses.  Each method is one step; a panic aborts the call with
\* nothing written.

MaxBackupTotal == 2   \* cap on total_analyses of the key/value variant

AnalysisIds == {"", "x", "y"}
AnalysisJsons == {"", "{}", "[1]"}

BackupFrame ==
    UNCHANGED <<block_timestamp, block_index, pc, tx_analyses, tx_metadata,
                tx_call, completed, collided>>

\* impl Default for NearGravitySemanticGuard
BackupInit ==
    /\ analyses = <<>>
    /\ contract_metadata = [owner |-> "NearGravity.near", total_analyses |-> 0]
    /\ block_timestamp = 0
    /\ block_index = 0
    /\ pc = "idle"
    /\ tx_analyses = <<>>
    /\ tx_metadata = <<>>
    /\ tx_call = NoCall
    /\ last = [op |-> "default", arg |-> <<>>, ret |-> <<>>, env |-> NoEnv]
    /\ completed = 0
    /\ collided = 0

\* HashMap::remove
Remove(map, key) == SelectSeq(map, LAMBDA e : e.key # key)

\* The check of analysis_json left out.
store_semantic_analysis_NoJsonCheck(analysis_id, analysis_json) ==
    /\ IF analysis_id = ""
       THEN /\ last' = [op |-> "store_semantic_analysis",
                        arg |-> [analysis_id |-> analysis_id,
                                 analysis_json |-> analysis_json],
                        ret |-> <<"panic", "Analysis ID cannot be empty">>,
                        env |-> NoEnv]
            /\ UNCHANGED <<analyses, contract_metadata>>
       ELSE /\ contract_metadata.total_analyses < MaxBackupTotal
            /\ contract_metadata' =
                  [contract_metadata EXCEPT !.total_analyses = @ + 1]
            /\ analyses' = Insert(analyses, analysis_id, analysis_json)
            /\ last' = [op |-> "store_semantic_analysis",
                        arg |-> [analysis_id |-> analysis_id,
                                 analysis_json |-> analysis_json],
                        ret |-> <<"ok", "analysis_"
                                    \o ToString(contract_metadata.total_analyses + 1)>>,
                        env |-> NoEnv]
    /\ BackupFrame

store_semantic_analysis(analysis_id, analysis_json) ==
    /\ IF analysis_id = ""
       THEN /\ last' = [op |-> "store_semantic_analysis",
                        arg |-> [analysis_id |-> analysis_id,
                                 analysis_json |-> analysis_json],
                        ret |-> <<"panic", "Analysis ID cannot be empty">>,
                        env |-> NoEnv]
            /\ UNCHANGED <<analyses, contract_metadata>>
       ELSE IF analysis_json = ""
       THEN /\ last' = [op |-> "store_semantic_analysis",
                        arg |-> [analysis_id |-> analysis_id,
                                 analysis_json |-> analysis_json],
                        ret |-> <<"panic", "Analysis JSON cannot be empty">>,
                        env |-> NoEnv]
            /\ UNCHANGED <<analyses, contract_metadata>>
       ELSE /\ contract_metadata.total_analyses < MaxBackupTotal
            /\ contract_metadata' =
                  [contract_metadata EXCEPT !.total_analyses = @ + 1]
            /\ analyses' = Insert(analyses, analysis_id, analysis_json)
            /\ last' = [op |-> "store_semantic_analysis",
                        arg |-> [analysis_id |-> analysis_id,
                                 analysis_json |-> analysis_json],
                        ret |-> <<"ok", "analysis_"
                                    \o ToString(contract_metadata.total_analyses + 1)>>,
                        env |-> NoEnv]
    /\ BackupFrame

\* NearGravitySemanticGuard::get_semantic_analysis
backup_get_semantic_analysis(analysis_id) ==
    /\ last' = [op |-> "backup_get_semantic_analysis", arg |-> analysis_id,
                ret |-> Get(analyses, analysis_id), env |-> NoEnv]
    /\ UNCHANGED <<analyses, contract_metadata>>
    /\ BackupFrame

get_stats ==
    /\ last' = [op |-> "get_stats", arg |-> <<>>,
                ret |-> [total_analyses |-> contract_metadata.total_analyses,
                         total_stored |-> Len(analyses)],
                env |-> NoEnv]
    /\ UNCHANGED <<analyses, contract_metadata>>
    /\ BackupFrame

increment ==
    /\ contract_metadata.total_analyses < MaxBackupTotal
    /\ contract_metadata' = [contract_metadata EXCEPT !.total_analyses = @ + 1]
    /\ last' = [op |-> "increment", arg |-> <<>>,
                ret |-> contract_metadata.total_analyses + 1, env |-> NoEnv]
    /\ UNCHANGED analyses
    /\ BackupFrame

delete_analysis(analysis_id) ==
    /\ analyses' = Remove(analyses, analysis_id)
    /\ last' = [op |-> "delete_analysis", arg |-> analysis_id,
                ret |-> ContainsKey(analyses, analysis_id), env |-> NoEnv]
    /\ UNCHANGED contract_metadata
    /\ BackupFrame

BackupNext ==
    \/ \E analysis_id \in AnalysisIds, analysis_json \in AnalysisJsons :
          store_semantic_analysis(analysis_id, analysis_json)
    \/ \E analysis_id \in AnalysisIds : backup_get_semantic_analysis(analysis_id)
    \/ get_stats
    \/ increment
    \/ \E analysis_id \in AnalysisIds : delete_analysis(analysis_id)

SpecBackup == BackupInit /\ [][BackupNext]_vars

-----------------------------------------------------------------------------
\* Properties.

SubmissionOps == {"submit_semantic_analysis", "submit_demo_analysis"}

QueryOps == {"get_semantic_analysis", "get_high_risk_analyses", "get_recent_analyses",
             "get_contract_stats", "get_total_analyses", "health_check"}

\* A submission call returns in this step.
SubmissionReturns == completed' = completed + 1

\* A call of a view method returns in this step.
QueryReturns ==
    /\ last'.op \in QueryOps
    /\ \/ last.op # last'.op
       \/ last.arg # last'.arg
       \/ last.ret # last'.ret

\* Severity rank: Low=1, Medium=2, High=3, Critical=4.
Rank(severity) ==
    CASE severity = "Low" -> 1
      [] severity = "Medium" -> 2
      [] severity = "High" -> 3
      [] severity = "Critical" -> 4

Min(a, b) == IF a <= b THEN a ELSE b

\* C1: the counter equals the number of submission calls that returned,
\* collisions included, and get_total_analyses returns that number.
C1_TotalIsNumberOfSubmissions ==
    /\ contract_metadata.total_analyses = completed
    /\ last.op = "get_total_analyses" => last.ret = completed

\* get_total_analyses answered 2 after two submissions to one identifier.
C1_Witness ==
    /\ last.op = "get_total_analyses"
    /\ last.ret = 2
    /\ collided = 1
    /\ Len(analyses) = 1

\* C2: right after submit_semantic_analysis(q, r, a, m) returned X,
\* get_semantic_analysis(X) is a record with the submitted q, r, a, m, id X
\* and the caller, time and height of that call, also when X was stored before.
C2_RoundTrip ==
    last.op = "submit_semantic_analysis" =>
        LET got == Get(analyses, last.ret)
        IN  /\ Len(got) = 1
            /\ got[1].id = last.ret
            /\ got[1].query = last.arg.query
            /\ got[1].results = last.arg.results
            /\ got[1].semantic_analysis = last.arg.semantic_analysis
            /\ got[1].metadata = last.arg.metadata
            /\ got[1].submitter = last.env.predecessor
            /\ got[1].timestamp = last.env.block_timestamp
            /\ got[1].block_height = last.env.block_index

\* The second of two submissions to one identifier returned, one block later
\* than the first.
C2_Witness ==
    /\ last.op = "submit_semantic_analysis"
    /\ completed = 2
    /\ collided = 1
    /\ last.env.block_index = 1
    /\ Len(last.arg.results) = 2

\* C3: the pattern match agrees with rank(outlier) >= rank(threshold) on the
\* 16 pairs, and for every threshold get_high_risk_analyses returns exactly
\* the stored records with an outlier of at least that rank, each once.
C3_HighRiskIsRankComparison ==
    /\ \A sev \in OutlierSeverity, thr \in OutlierSeverity :
          SeverityMatches(sev, thr) <=> Rank(sev) >= Rank(thr)
    /\ \A thr \in OutlierSeverity :
          LET ret == HighRiskAnalyses(analyses, thr)
              expected == {i \in 1..Len(analyses) :
                              \E j \in 1..Len(analyses[i].value.semantic_analysis.outliers) :
                                  Rank(analyses[i].value.semantic_analysis.outliers[j].severity)
                                      >= Rank(thr)}
          IN  /\ Len(ret) = Cardinality(expected)
              /\ {ret[k] : k \in 1..Len(ret)} = {analyses[i].value : i \in expected}
              /\ \A k \in 1..Len(ret) : Len(ret[k].semantic_analysis.outliers) > 0
              /\ (last.op = "get_high_risk_analyses" /\ last.arg = thr) => last.ret = ret

\* get_high_risk_analyses(Medium) returned one of two stored records that
\* both have outliers.
C3_Witness ==
    /\ last.op = "get_high_risk_analyses"
    /\ last.arg = "Medium"
    /\ Len(last.ret) = 1
    /\ Len(analyses) = 2
    /\ \A i \in 1..2 : Len(analyses[i].value.semantic_analysis.outliers) > 0

\* C4: a submit_demo_analysis call that returns leaves exactly one entry under
\* its key, adds 1 to the size when the key was absent and 0 when it was
\* present, and adds 1 to the counter; when the previous call that returned was
\* submit_demo_analysis with the same (prefix, identifier), the key is the
\* same and the size does not grow.
C4_DemoCollisionOverwrites ==
    [][(SubmissionReturns /\ last'.op = "submit_demo_analysis") =>
        /\ Cardinality({i \in 1..Len(analyses') : analyses'[i].key = last'.ret}) = 1
        /\ Len(analyses') = Len(analyses) + (IF last'.ret \in Keys(analyses) THEN 0 ELSE 1)
        /\ contract_metadata'.total_analyses = contract_metadata.total_analyses + 1
        /\ (/\ last.op = "submit_demo_analysis"
            /\ last.arg.prefix = last'.arg.prefix
            /\ last.arg.identifier = last'.arg.identifier)
           => (last'.ret = last.ret /\ Len(analyses') = Len(analyses))
      ]_vars

\* Two submit_demo_analysis calls returned: one entry, counter 2.
C4_Witness ==
    /\ last.op = "submit_demo_analysis"
    /\ Len(analyses) = 1
    /\ analyses[1].key = last.ret
    /\ analyses[1].value.query = "Demo Query"
    /\ contract_metadata.total_analyses = 2

\* C5: the number of stored identifiers is at most total_analyses, and smaller
\* exactly when some submission used an identifier that was already stored.
C5_SizeAtMostTotal ==
    /\ Cardinality(Keys(analyses)) <= contract_metadata.total_analyses
    /\ Cardinality(Keys(analyses)) < contract_metadata.total_analyses <=> collided > 0

\* One stored identifier after two submissions.
C5_Witness ==
    /\ collided > 0
    /\ Cardinality(Keys(analyses)) = 1
    /\ contract_metadata.total_analyses = 2

\* C6: every stored identifier stays stored: no step removes a key, so
\* get_semantic_analysis keeps returning a record for it.
C6_RecordsNeverDeleted ==
    [][\A k \in Keys(analyses) : Len(Get(analyses', k)) = 1]_vars

\* A submission collided with a stored identifier, which is still stored.
C6_Witness ==
    /\ collided = 1
    /\ pc = "idle"
    /\ Len(analyses) = 1
    /\ Len(Get(analyses, analyses[1].key)) = 1

\* C7 as stated: the record under a stored identifier is the same after every
\* step, later submissions included.
C7_RecordsNeverMutated ==
    [][\A k \in Keys(analyses) : Get(analyses', k) = Get(analyses, k)]_vars

\* C7 amended: the record under a stored identifier X changes only in a step
\* in which a submission that stores under X returns, and then becomes that
\* submission's record.
C7_RecordsChangeOnlyByResubmission ==
    [][\A k \in Keys(analyses) :
          Get(analyses', k) # Get(analyses, k) =>
              /\ SubmissionReturns
              /\ last'.op \in SubmissionOps
              /\ last'.ret = k
              /\ Len(Get(analyses', k)) = 1
              /\ Get(analyses', k)[1].submitter = last'.env.predecessor
              /\ Get(analyses', k)[1].timestamp = last'.env.block_timestamp
      ]_vars

\* Two identifiers are stored, the second by the last submission.
C7_Witness ==
    /\ last.op \in SubmissionOps
    /\ Len(analyses) = 2
    /\ analyses[2].key = last.ret
    /\ analyses[1].value.timestamp < analyses[2].value.timestamp

\* C8: get_recent_analyses(limit) has min(limit, size) elements and its i-th
\* element is the record at position size + 1 - i of the enumeration.
C8_RecentIsReversedPrefix ==
    \A limit \in 0..(MaxLimit + 1) :
        LET ret == RecentAnalyses(analyses, limit)
            size == Len(analyses)
        IN  /\ Len(ret) = Min(limit, size)
            /\ \A i \in 1..Min(limit, size) : ret[i] = analyses[size + 1 - i].value
            /\ (last.op = "get_recent_analyses" /\ last.arg = limit) => last.ret = ret

\* get_recent_analyses(1) returned the second of two stored records.
C8_Witness ==
    /\ last.op = "get_recent_analyses"
    /\ last.arg = 1
    /\ Len(analyses) = 2
    /\ last.ret = <<analyses[2].value>>

\* C9: a step in which a view method returns leaves the record store and the
\* metadata unchanged.
C9_QueriesChangeNothing ==
    [][QueryReturns => UNCHANGED <<analyses, contract_metadata>>]_vars

\* A view method returned a non-empty answer from a non-empty store.
C9_Witness ==
    /\ last.op = "get_recent_analyses"
    /\ Len(last.ret) = 2
    /\ contract_metadata.total_analyses = 2

\* C10: the record store and the metadata change only in a step in which a
\* submission returns, and that step both stores the record under the
\* returned identifier and adds 1 to total_analyses; entering the method,
\* the insert, the increment and an abort at any point leave both unchanged.
C10_SubmissionAllOrNothing ==
    [][/\ (analyses' # analyses \/ contract_metadata' # contract_metadata)
            => SubmissionReturns
       /\ SubmissionReturns =>
            /\ Len(Get(analyses', last'.ret)) = 1
            /\ Get(analyses', last'.ret)[1].id = last'.ret
            /\ contract_metadata' =
                  [contract_metadata EXCEPT !.total_analyses = @ + 1]
      ]_vars

\* A submission has inserted but not yet incremented: the stored state
\* still has neither effect.
C10_Witness ==
    /\ pc = "inserted"
    /\ tx_analyses # analyses
    /\ tx_metadata = contract_metadata
    /\ Len(analyses) = 1

\* C11: submit_semantic_analysis has no rejection path: whenever the contract
\* is ready for a call, the call can start for every input, the empty query
\* with no results and no outliers included; once started it can run to its
\* return, where the record is stored under the returned identifier and
\* total_analyses is one more than before the call.
C11_NoRejectionPath ==
    /\ (pc = "idle" /\ contract_metadata.total_analyses < MaxSubmissions) =>
          \A query \in Queries, p \in Payloads, predecessor \in Accounts :
              ENABLED submit_semantic_analysis(query, p.results, p.semantic_analysis,
                                               p.metadata, predecessor)
    /\ pc = "inserted" => ENABLED increment_total_analyses
    /\ pc = "incremented" => ENABLED Return
    /\ (pc = "incremented" /\ tx_call.op = "submit_semantic_analysis") =>
          /\ Len(Get(tx_analyses, tx_call.ret)) = 1
          /\ tx_metadata.total_analyses = contract_metadata.total_analyses + 1
    /\ last.op = "submit_semantic_analysis" => Len(Get(analyses, last.ret)) = 1

\* A submission with an empty query, no results and no outliers returned and
\* is stored.
C11_Witness ==
    /\ last.op = "submit_semantic_analysis"
    /\ last.arg.query = ""
    /\ last.arg.results = <<>>
    /\ last.arg.semantic_analysis.outliers = <<>>
    /\ Get(analyses, last.ret)[1].query = ""
    /\ contract_metadata.total_analyses = 1

\* C12: the identifier depends on (query, timestamp, caller) only: when
\* submit_semantic_analysis returns, every stored record with the call's
\* query, timestamp and caller is stored under the returned identifier,
\* whatever the store and the counter held when that record was submitted.
C12_IdentifierIndependentOfState ==
    last.op = "submit_semantic_analysis" =>
        \A i \in 1..Len(analyses) :
            (/\ analyses[i].value.query = last.arg.query
             /\ analyses[i].value.timestamp = last.env.block_timestamp
             /\ analyses[i].value.submitter = last.env.predecessor)
            => analyses[i].key = last.ret

\* Two calls with one query, timestamp and caller returned, the second with
\* the counter at 1 and the store non-empty: one identifier.
C12_Witness ==
    /\ last.op = "submit_semantic_analysis"
    /\ last.env.block_index = 0
    /\ block_index = 0
    /\ completed = 2
    /\ collided = 1
    /\ Len(analyses) = 1
    /\ analyses[1].key = last.ret

\* C13: before any call returns the store is empty and total_analyses is 0;
\* version, total_staked and consensus_threshold keep their initial values in
\* every state, also in what get_contract_stats returns.
C13_OnlyTotalAnalysesChanges ==
    /\ contract_metadata.version = "1.0.0"
    /\ contract_metadata.total_staked = 0
    /\ contract_metadata.consensus_threshold = "0.75"
    /\ DOMAIN contract_metadata =
          {"version", "total_analyses", "total_staked", "consensus_threshold"}
    /\ (last.op = "new" /\ pc = "idle") =>
          (analyses = <<>> /\ contract_metadata.total_analyses = 0)
    /\ last.op = "get_contract_stats" =>
          last.ret = [version |-> "1.0.0",
                      total_analyses |-> contract_metadata.total_analyses,
                      total_staked |-> 0,
                      consensus_threshold |-> "0.75"]

\* get_contract_stats answered after two submissions.
C13_Witness ==
    /\ last.op = "get_contract_stats"
    /\ last.ret.total_analyses = 2
    /\ Len(analyses) = 2

\* C14: health_check returns true in every state.
C14_HealthCheckIsTrue ==
    /\ pc = "idle" => ENABLED health_check
    /\ last.op = "health_check" => last.ret = TRUE

\* health_check answered on an empty store.
C14_Witness ==
    /\ last.op = "health_check"
    /\ last.ret = TRUE
    /\ analyses = <<>>
    /\ block_index = 1

\* C15: a submission that returns identifier X leaves the answer of
\* get_semantic_analysis unchanged for every identifier other than X, and
\* the store grows by 1 when X was absent and by 0 when it was present.
C15_SubmissionChangesOnlyItsEntry ==
    [][SubmissionReturns =>
        /\ \A Y \in Keys(analyses) \cup Keys(analyses') \cup {"unknown"} :
              Y # last'.ret => Get(analyses', Y) = Get(analyses, Y)
        /\ Len(analyses') =
              Len(analyses) + (IF last'.ret \in Keys(analyses) THEN 0 ELSE 1)
        /\ Cardinality(Keys(analyses')) = Len(analyses')
      ]_vars

\* A demo submission was stored next to a record of submit_semantic_analysis.
C15_Witness ==
    /\ last.op = "submit_demo_analysis"
    /\ Len(analyses) = 2
    /\ analyses[2].key = last.ret
    /\ analyses[1].value.query \in Queries
    /\ collided = 0

\* C16: for every threshold the result of get_high_risk_analyses is a
\* subsequence of the enumeration of the store: its records are stored
\* records taken at strictly increasing positions.
C16_HighRiskKeepsEnumerationOrder ==
    \A thr \in OutlierSeverity :
        LET ret == HighRiskAnalyses(analyses, thr)
        IN  /\ \E f \in [1..Len(ret) -> 1..Len(analyses)] :
                  /\ \A k \in 1..Len(ret) : ret[k] = analyses[f[k]].value
                  /\ \A k \in 1..Len(ret), l \in 1..Len(ret) : k < l => f[k] < f[l]
            /\ (last.op = "get_high_risk_analyses" /\ last.arg = thr) => last.ret = ret

\* get_high_risk_analyses(Low) returned both stored records, in store order.
C16_Witness ==
    /\ last.op = "get_high_risk_analyses"
    /\ last.arg = "Low"
    /\ Len(last.ret) = 2
    /\ last.ret[1] = analyses[1].value
    /\ last.ret[2] = analyses[2].value

\* C17: the effect of submit_demo_analysis is fixed by the state, the caller,
\* the time and (prefix, identifier): the key is prefix_identifier_demo, the
\* record under it is the placeholder record, and every other entry is as it
\* was; analysis_data appears nowhere in the result.
C17_DemoIgnoresPayload ==
    LET Placeholder(key, env) ==
            [id |-> key,
             query |-> "Demo Query",
             results |-> <<>>,
             semantic_analysis |->
                [center_of_gravity |-> "A", outliers |-> <<>>, distance_matrix |-> <<>>,
                 embeddings |-> <<>>, threshold_used |-> "0.75",
                 processing_time_ms |-> 100, consensus_score |-> "0.95"],
             submitter |-> env.predecessor,
             timestamp |-> env.block_timestamp,
             block_height |-> env.block_index,
             metadata |->
                [model_version |-> "demo", algorithm_version |-> "1.0",
                 processing_node |-> "demo_node", verification_count |-> 0,
                 dispute_count |-> 0, consensus_reached |-> TRUE]]
        Effect(call, before, after) ==
            LET key == call.arg.prefix \o "_" \o call.arg.identifier \o "_demo"
            IN  /\ call.ret = key
                /\ Get(after, key) = <<Placeholder(key, call.env)>>
                /\ Keys(after) = Keys(before) \cup {key}
                /\ \A Y \in Keys(before) \ {key} : Get(after, Y) = Get(before, Y)
    IN  /\ (pc # "idle" /\ tx_call.op = "submit_demo_analysis") =>
              Effect(tx_call, analyses, tx_analyses)
        /\ last.op = "submit_demo_analysis" =>
              /\ last.ret = last.arg.prefix \o "_" \o last.arg.identifier \o "_demo"
              /\ Get(analyses, last.ret) = <<Placeholder(last.ret, last.env)>>

\* A demo submission with a non-empty payload returned; the stored record
\* holds the placeholder query.
C17_Witness ==
    /\ last.op = "submit_demo_analysis"
    /\ last.arg.analysis_data = "{\"x\":1}"
    /\ last.ret = "a_b_c_demo"
    /\ Get(analyses, "a_b_c_demo")[1].query = "Demo Query"

\* C19: every entry is stored under its record's id, and the id of a record
\* that is not under a demo storage key is the encoded digest of that
\* record's query, timestamp and submitter.
C19_KeyIsRecordId ==
    LET DemoKeys == {p \o "_" \o i \o "_demo" : p \in Prefixes, i \in Identifiers}
        Holds(map) ==
            \A n \in 1..Len(map) :
                /\ map[n].key = map[n].value.id
                /\ map[n].key \notin DemoKeys =>
                      map[n].value.id =
                          "bs58(sha256(" \o map[n].value.query
                              \o ToString(map[n].value.timestamp)
                              \o map[n].value.submitter \o "))"
    IN  Holds(analyses) /\ Holds(tx_analyses)

\* One record of each submission method is stored, the first submitted in an
\* earlier block.
C19_Witness ==
    /\ Len(analyses) = 2
    /\ analyses[1].value.query = "1"
    /\ analyses[1].value.timestamp = 0
    /\ analyses[2].value.query = "Demo Query"
    /\ block_timestamp = 10

\* C20: for thresholds t1 <= t2 every record get_high_risk_analyses(t2)
\* returns is also returned by get_high_risk_analyses(t1).
C20_HighRiskAntiMonotone ==
    \A t1 \in OutlierSeverity, t2 \in OutlierSeverity :
        Rank(t1) <= Rank(t2) =>
            LET r1 == HighRiskAnalyses(analyses, t1)
                r2 == HighRiskAnalyses(analyses, t2)
            IN  {r2[k] : k \in 1..Len(r2)} \subseteq {r1[k] : k \in 1..Len(r1)}

\* get_high_risk_analyses(High) returned one record while the Low threshold
\* selects two.
C20_Witness ==
    /\ last.op = "get_high_risk_analyses"
    /\ last.arg = "High"
    /\ Len(last.ret) = 1
    /\ Len(HighRiskAnalyses(analyses, "Low")) = 2

\* A call of store_semantic_analysis ends in this step.
StoreEnds ==
    /\ last'.op = "store_semantic_analysis"
    /\ \/ last.op # last'.op
       \/ last.arg # last'.arg
       \/ last.ret # last'.ret

\* C18: in the key/value variant, store_semantic_analysis with an empty
\* analysis_id or an empty analysis_json panics and leaves total_analyses and
\* the map as they were; with both non-empty it adds 1 to total_analyses and
\* stores the payload under analysis_id.
C18_StoreRejectsEmptyInput ==
    [][StoreEnds =>
        IF last'.arg.analysis_id = "" \/ last'.arg.analysis_json = ""
        THEN /\ last'.ret[1] = "panic"
             /\ UNCHANGED <<analyses, contract_metadata>>
        ELSE /\ last'.ret[1] = "ok"
             /\ contract_metadata'.total_analyses = contract_metadata.total_analyses + 1
             /\ contract_metadata'.owner = contract_metadata.owner
             /\ Get(analyses', last'.arg.analysis_id) = <<last'.arg.analysis_json>>
             /\ \A Y \in AnalysisIds \ {last'.arg.analysis_id} :
                   Get(analyses', Y) = Get(analyses, Y)
      ]_vars

\* A call with an empty payload panicked after an earlier call had stored
\* an analysis, which is still there.
C18_Witness ==
    /\ last.op = "store_semantic_analysis"
    /\ last.arg.analysis_id = "x"
    /\ last.arg.analysis_json = ""
    /\ last.ret[1] = "panic"
    /\ Get(analyses, "x") = <<"{}">>
    /\ contract_metadata.total_analyses = 1
====
